---- MODULE Spec2Model ----
(***************************************************************************)
(* Model of ir-score-notifier: the keyword dictionary store                *)
(* (keyword_loader.py), the scoring engine (scorer.py), the decision and   *)
(* audit logger (notifier.py) and the dictionary generator                 *)
(* (auto_keywords_generator.py).                                           *)
(*                                                                         *)
(* Strings are sequences of one-character strings, so that strip, split,   *)
(* substring tests and the regular expression \bkeyword\b are computed     *)
(* character by character as Python computes them.                         *)
(***************************************************************************)
EXTENDS Integers, Sequences, FiniteSets, TLC

----------------------------------------------------------------------------
(* Bounds of the model *)

MaxTime == 1
MaxDecisions == 2
TicksPerDay == 1

(* Observer objects created in a run *)
MaxObservers == 3

----------------------------------------------------------------------------
(* Program constants *)

MinScore == 0
MaxScore == 100
DefaultThreshold == 80
FloorLength == 500
LengthScale == 1000
MaxKeywords == 200
MinWordLength == 2
WeightScale == 20
GeneratedMin == 1
GeneratedMax == 10
NegativeFloor == 8
PositiveFloor == 6

----------------------------------------------------------------------------
(* Characters and strings *)

(* \w: every character of the model but the blank and the full stop *)
IsWordChar(c) == c \notin {" ", "."}

IsSpace(c) == c = " "

RECURSIVE LStrip(_)
LStrip(s) ==
    IF s = <<>> THEN <<>>
    ELSE IF IsSpace(Head(s)) THEN LStrip(Tail(s))
    ELSE s

RECURSIVE RStrip(_)
RStrip(s) ==
    IF s = <<>> THEN <<>>
    ELSE IF IsSpace(s[Len(s)]) THEN RStrip(SubSeq(s, 1, Len(s) - 1))
    ELSE s

Strip(s) == RStrip(LStrip(s))

HasSpace(s) == \E i \in 1..Len(s) : IsSpace(s[i])

(* str.split(): the maximal runs of non-whitespace characters *)
Split(s) ==
    { SubSeq(s, i, j) : <<i, j>> \in
        { p \in (1..Len(s)) \X (1..Len(s)) :
            /\ p[1] <= p[2]
            /\ \A k \in p[1]..p[2] : ~IsSpace(s[k])
            /\ (p[1] = 1 \/ IsSpace(s[p[1] - 1]))
            /\ (p[2] = Len(s) \/ IsSpace(s[p[2] + 1])) } }

(* part in text *)
IsSubstring(p, t) ==
    \E i \in 1..(Len(t) - Len(p) + 1) : SubSeq(t, i, i + Len(p) - 1) = p

(* \b between t[i-1] and t[i] *)
WordBoundary(t, i) ==
    LET left == i > 1 /\ IsWordChar(t[i - 1])
        right == i <= Len(t) /\ IsWordChar(t[i])
    IN  left # right

MatchAt(kw, t, i) ==
    /\ i + Len(kw) - 1 <= Len(t)
    /\ SubSeq(t, i, i + Len(kw) - 1) = kw
    /\ WordBoundary(t, i)
    /\ WordBoundary(t, i + Len(kw))

(* len(pattern.findall(text)): non-overlapping matches, leftmost first *)
RECURSIVE FindAllFrom(_, _, _)
FindAllFrom(kw, t, i) ==
    IF i > Len(t) THEN 0
    ELSE IF MatchAt(kw, t, i) THEN 1 + FindAllFrom(kw, t, i + Len(kw))
    ELSE FindAllFrom(kw, t, i + 1)

FindAllCount(kw, t) == FindAllFrom(kw, t, 1)

----------------------------------------------------------------------------
(* Arithmetic *)

Min(a, b) == IF a < b THEN a ELSE b

Max(a, b) == IF a > b THEN a ELSE b

(* Python round() of the non-negative rational n/d: nearest, ties to even *)
RoundHalfEven(n, d) ==
    LET q == n \div d
        r == n % d
    IN  IF 2 * r < d THEN q
        ELSE IF 2 * r > d THEN q + 1
        ELSE IF q % 2 = 0 THEN q ELSE q + 1

(* int(x) of a float given in tenths: truncation toward zero *)
TruncTenths(t) == IF t >= 0 THEN t \div 10 ELSE -((-t) \div 10)

RECURSIVE SumOver(_, _)
SumOver(f, S) ==
    IF S = {} THEN 0
    ELSE LET x == CHOOSE y \in S : TRUE
         IN  f[x] + SumOver(f, S \ {x})

EmptyMap == [x \in {} |-> 0]

Put(m, k, v) == [x \in (DOMAIN m) \cup {k} |-> IF x = k THEN v ELSE m[x]]

----------------------------------------------------------------------------
(* Words, cells and files *)

A == <<"a">>

B == <<"b">>

AB == <<"a", " ", "b">>

NAN == <<"n", "a", "n">>

NoneValue == "None"

UserPath == "custom_keywords/keywords"

AutoPath == "auto_keywords/auto_keywords.json"

IntCell(n) == [t |-> "int", v |-> n]

FloatCell(tenths) == [t |-> "float", v |-> tenths]

TextCell(s) == [t |-> "text", s |-> s]

StrCell == [t |-> "str", v |-> 0]

NanCell == [t |-> "nan", v |-> 0]

BlankCell == [t |-> "nan", s |-> <<>>]

(* str(cell): a blank spreadsheet cell is read as NaN and printed "nan" *)
StrOf(cell) == IF cell.t = "text" THEN cell.s ELSE NAN

(* int(cell) raises ValueError on NaN and on non-integer text *)
IntRaises(cell) == cell.t \in {"str", "nan"}

IntOf(cell) == IF cell.t = "float" THEN TruncTenths(cell.v) ELSE cell.v

(* isinstance(score, (int, float)) *)
IsNumber(cell) == cell.t \in {"int", "float", "nan"}

Absent == [kind |-> "absent"]

Corrupt == [kind |-> "corrupt"]

Table(cols, rows) == [kind |-> "table", cols |-> cols, rows |-> rows]

Row(w, sc) == [word |-> w, score |-> sc]

Json(entries) == [kind |-> "json", entries |-> entries]

Exists(file) == file.kind # "absent"

UserCurated ==
    Table({"word", "score", "note"},
          << Row(TextCell(A), IntCell(8)),
             Row(TextCell(<<" ">> \o AB), IntCell(5)),
             Row(TextCell(B), IntCell(-3)) >>)

UserBig ==
    Table({"word", "score"},
          << Row(TextCell(A), IntCell(8)), Row(TextCell(B), IntCell(1000)) >>)

UserPartial ==
    Table({"word", "score"},
          << Row(TextCell(A), IntCell(8)), Row(TextCell(B), StrCell) >>)

UserNoColumn == Table({"word", "note"}, << Row(TextCell(A), IntCell(8)) >>)

UserFiles == {UserCurated, UserBig, UserPartial, UserNoColumn, Corrupt}

AutoGood ==
    Json(<< Row(A, IntCell(9)), Row(B, FloatCell(79)),
            Row(<<" ">>, IntCell(3)), Row(AB, StrCell) >>)

AutoPartial == Json(<< Row(A, IntCell(9)), Row(B, NanCell) >>)

AutoEmpty == Json(<<>>)

AutoFiles == {AutoGood, AutoPartial, AutoEmpty, Corrupt}

Suffixes == {".xlsx", ".csv", ".txt"}

----------------------------------------------------------------------------
(* KeywordDictionary *)

Raised(kw) == [raised |-> TRUE, touched |-> FALSE, keywords |-> kw]

RECURSIVE UserRows(_, _, _)
UserRows(rows, i, acc) ==
    IF i > Len(rows) THEN [raised |-> FALSE, touched |-> TRUE, keywords |-> acc]
    ELSE LET word == Strip(StrOf(rows[i].word))
         IN  IF word = <<>> THEN UserRows(rows, i + 1, acc)
             ELSE IF IntRaises(rows[i].score)
                  THEN [raised |-> TRUE, touched |-> TRUE, keywords |-> acc]
             ELSE UserRows(rows, i + 1, Put(acc, word, IntOf(rows[i].score)))

(* _load_user_dictionary: the keywords the store holds when it returns or
   raises, given the keywords kw it held before *)
LoadUserDictionary(kw, file, suffix) ==
    IF suffix \notin {".xlsx", ".csv"} THEN Raised(kw)
    ELSE IF file.kind # "table" THEN Raised(kw)
    ELSE IF ~({"word", "score"} \subseteq file.cols) THEN Raised(kw)
    ELSE UserRows(file.rows, 1, EmptyMap)

RECURSIVE AutoEntries(_, _, _)
AutoEntries(entries, i, acc) ==
    IF i > Len(entries) THEN [raised |-> FALSE, touched |-> TRUE, keywords |-> acc]
    ELSE LET word == Strip(entries[i].word)
         IN  IF word = <<>> THEN AutoEntries(entries, i + 1, acc)
             ELSE IF ~IsNumber(entries[i].score) THEN AutoEntries(entries, i + 1, acc)
             ELSE IF IntRaises(entries[i].score)
                  THEN [raised |-> TRUE, touched |-> TRUE, keywords |-> acc]
             ELSE AutoEntries(entries, i + 1, Put(acc, word, IntOf(entries[i].score)))

(* the reset "self.keywords = {}" forgotten *)
LoadAutoDictionaryNoReset(kw, file) ==
    IF file.kind # "json" THEN Raised(kw)
    ELSE AutoEntries(file.entries, 1, kw)

(* _load_auto_dictionary *)
LoadAutoDictionary(kw, file) ==
    IF file.kind # "json" THEN Raised(kw)
    ELSE AutoEntries(file.entries, 1, EmptyMap)

Store(kw, st, sp) == [keywords |-> kw, source_type |-> st, source_path |-> sp]

(* the generated dictionary looked for first *)
LoadResultAutoFirst(store, uf, af, suffix) ==
    LET a == LoadAutoDictionary(store.keywords, af)
        kwAfterAuto == IF Exists(af) THEN a.keywords ELSE store.keywords
        u == LoadUserDictionary(kwAfterAuto, uf, suffix)
    IN  IF Exists(af) /\ ~a.raised
        THEN [ok |-> TRUE, store |-> Store(a.keywords, "auto", AutoPath)]
        ELSE IF Exists(uf) /\ ~u.raised
             THEN [ok |-> TRUE, store |-> Store(u.keywords, "user", UserPath)]
             ELSE [ok |-> FALSE,
                   store |-> Store(IF Exists(uf) THEN u.keywords ELSE kwAfterAuto,
                                   store.source_type, store.source_path)]

(* KeywordDictionary.load: the returned success flag and the store after
   the call, given the store before it and the two files *)
LoadResult(store, uf, af, suffix) ==
    LET u == LoadUserDictionary(store.keywords, uf, suffix)
        kwAfterUser == IF Exists(uf) THEN u.keywords ELSE store.keywords
        a == LoadAutoDictionary(kwAfterUser, af)
    IN  IF Exists(uf) /\ ~u.raised
        THEN [ok |-> TRUE, store |-> Store(u.keywords, "user", UserPath)]
        ELSE IF Exists(af)
             THEN IF ~a.raised
                  THEN [ok |-> TRUE, store |-> Store(a.keywords, "auto", AutoPath)]
                  ELSE [ok |-> FALSE,
                        store |-> Store(a.keywords, store.source_type, store.source_path)]
             ELSE [ok |-> FALSE,
                   store |-> Store(kwAfterUser, store.source_type, store.source_path)]

(* the mappings _load_user_dictionary assigns to self.keywords one after
   the other: the reset, then the mapping after each row, up to the row
   that raises *)
UserAssignments(file, suffix) ==
    IF ~LoadUserDictionary(EmptyMap, file, suffix).touched THEN <<>>
    ELSE LET done == { k \in 0..Len(file.rows) :
                         ~UserRows(SubSeq(file.rows, 1, k), 1, EmptyMap).raised }
         IN  [i \in 1..Cardinality(done) |->
                 UserRows(SubSeq(file.rows, 1, i - 1), 1, EmptyMap).keywords]

(* the same for _load_auto_dictionary *)
AutoAssignments(file) ==
    IF ~LoadAutoDictionary(EmptyMap, file).touched THEN <<>>
    ELSE LET done == { k \in 0..Len(file.entries) :
                         ~AutoEntries(SubSeq(file.entries, 1, k), 1, EmptyMap).raised }
         IN  [i \in 1..Cardinality(done) |->
                 AutoEntries(SubSeq(file.entries, 1, i - 1), 1, EmptyMap).keywords]

(* KeywordDictionary.load as the sequence of stores its assignments to
   self.keywords, self.source_type and self.source_path pass through *)
LoadAssignments(store, uf, af, suffix) ==
    LET u == LoadUserDictionary(store.keywords, uf, suffix)
        userKw == IF Exists(uf) THEN UserAssignments(uf, suffix) ELSE <<>>
        userPart == [i \in 1..Len(userKw) |->
                        Store(userKw[i], store.source_type, store.source_path)]
        a == LoadAutoDictionary(store.keywords, af)
        autoKw == IF Exists(af) THEN AutoAssignments(af) ELSE <<>>
        autoPart == [i \in 1..Len(autoKw) |->
                        Store(autoKw[i], store.source_type, store.source_path)]
    IN  IF Exists(uf) /\ ~u.raised
        THEN userPart \o << Store(u.keywords, "user", store.source_path),
                            Store(u.keywords, "user", UserPath) >>
        ELSE IF Exists(af) /\ ~a.raised
             THEN userPart \o autoPart
                    \o << Store(a.keywords, "auto", store.source_path),
                          Store(a.keywords, "auto", AutoPath) >>
             ELSE userPart \o autoPart

(* get_word_score *)
GetWordScore(kw, word) == IF word \in DOMAIN kw THEN kw[word] ELSE 0

----------------------------------------------------------------------------
(* IRScorer *)

(* A document body is the text followed by pad full stops; the keywords of
   the model contain no full stop, so the padding takes part in no match
   and only adds to len(content). *)
Doc(text, pad) == [text |-> text, pad |-> pad]

ContentLength(doc) == Len(doc.text) + doc.pad

(* the test "content is None" in place of "not content" *)
IsEmptyContentNoneOnly(doc) == FALSE

IsEmptyContent(doc) == ContentLength(doc) = 0

(* _count_keywords: a multi-word keyword gets an entry only when every
   part is a substring of the text *)
CountKeywords(kw, text) ==
    LET counted == { k \in DOMAIN kw :
                       HasSpace(k) => \A part \in Split(k) : IsSubstring(part, text) }
    IN  [k \in counted |-> FindAllCount(k, text)]

(* _adjust_score_by_frequency, in exact arithmetic:
   frequency_factor = min(2.0, 1.0 + (count-1)*0.2) = fifths/5
   length_factor    = min(1.0, 1000 / max(500, text_length))
   Python multiplies in double precision; on the lengths of Docs the double
   product rounds as the exact one does.  At exact ties of other lengths
   (base 3, count 3, length 1200: 3.5) the double falls just below the tie
   and rounds down where the exact value rounds to even. *)
FrequencyFifths(count) == Min(10, 5 + (count - 1))

(* min(1.0, ...) left out of the length factor *)
LengthFactorNoCap(len) == <<LengthScale, Max(FloorLength, len)>>

(* length_factor as <<numerator, denominator>> *)
LengthFactor(len) ==
    IF LengthScale >= Max(FloorLength, len)
    THEN <<1, 1>>
    ELSE <<LengthScale, Max(FloorLength, len)>>

LengthNum(len) == LengthFactor(len)[1]

LengthDen(len) == LengthFactor(len)[2]

(* int() in place of round() *)
AdjustScoreByFrequencyTruncating(base, count, len) ==
    (base * FrequencyFifths(count) * LengthNum(len)) \div (5 * LengthDen(len))

AdjustScoreByFrequency(base, count, len) ==
    RoundHalfEven(base * FrequencyFifths(count) * LengthNum(len), 5 * LengthDen(len))

(* each contribution clamped to the score range before it is summed *)
UsedKeywordsClamped(kw, doc) ==
    LET wc == CountKeywords(kw, doc.text)
        positive == { w \in DOMAIN wc : GetWordScore(kw, w) > 0 }
    IN  [w \in positive |->
            Min(MaxScore,
                AdjustScoreByFrequency(GetWordScore(kw, w), wc[w], ContentLength(doc)))]

UsedKeywords(kw, doc) ==
    LET wc == CountKeywords(kw, doc.text)
        positive == { w \in DOMAIN wc : GetWordScore(kw, w) > 0 }
    IN  [w \in positive |->
            AdjustScoreByFrequency(GetWordScore(kw, w), wc[w], ContentLength(doc))]

(* the upper clamp forgotten *)
NormalizeLowerOnly(total) == Max(MinScore, total)

Normalize(total) == Min(MaxScore, Max(MinScore, Min(MaxScore, total)))

(* the fallback "or 'none'" forgotten *)
TypeRaw(st) == st

TypeOrNone(st) == IF st = NoneValue THEN "none" ELSE st

ScoringResult(score, used, doc, dtype) ==
    [score |-> score, used_keywords |-> used, document |-> doc, dictionary_type |-> dtype]

(* calculate_score: the result and the store after the call *)
CalculateScore(store, uf, af, suffix, doc) ==
    LET needLoad == DOMAIN store.keywords = {}
        ld == LoadResult(store, uf, af, suffix)
        st == IF needLoad THEN ld.store ELSE store
        used == UsedKeywords(st.keywords, doc)
        total == SumOver(used, DOMAIN used)
    IN  IF needLoad /\ ~ld.ok
        THEN [loaded |-> "failed", store |-> st,
              result |-> ScoringResult(0, EmptyMap, doc, "none")]
        ELSE [loaded |-> IF needLoad THEN "ok" ELSE "no", store |-> st,
              result |->
                IF IsEmptyContent(doc)
                THEN ScoringResult(0, EmptyMap, doc, TypeOrNone(st.source_type))
                ELSE ScoringResult(Normalize(total), used, doc,
                                   TypeOrNone(st.source_type))]

----------------------------------------------------------------------------
(* AutoKeywordGenerator *)

Akaji == <<"a", "k", "a", "j", "i">>

Kuroji == <<"k", "u", "r", "o", "j", "i">>

Gappei == <<"g", "a", "p", "p", "e", "i">>

Zoueki == <<"z", "o", "u", "e", "k", "i">>

Geneki == <<"g", "e", "n", "e", "k", "i">>

JoujouHaishi == <<"j", "o", "u", "j", "o", "u", "h", "a", "i", "s", "h", "i">>

Genson == <<"g", "e", "n", "s", "o", "n">>

(* stand-ins for the two literal word lists of generate_keywords *)
NegativeEventTerms == {Akaji}

PositiveEventTerms == {Kuroji}

Weighted(w, milli) == [word |-> w, milli |-> milli]

(* int(tfidf_mean * 20) with the mean given in thousandths *)
ScoreNormalized(milli) ==
    Min(GeneratedMax, Max(GeneratedMin, (milli * WeightScale) \div 1000))

(* the floor assigned where the code takes the maximum *)
OverrideAssign(word, sc) ==
    IF word \in NegativeEventTerms THEN NegativeFloor
    ELSE IF word \in PositiveEventTerms THEN PositiveFloor
    ELSE sc

(* the weighting of the special IR terms *)
Override(word, sc) ==
    IF word \in NegativeEventTerms THEN Max(NegativeFloor, sc)
    ELSE IF word \in PositiveEventTerms THEN Max(PositiveFloor, sc)
    ELSE sc

RECURSIVE KeywordsFrom(_, _, _)
KeywordsFrom(ranked, i, acc) ==
    IF i > Len(ranked) THEN acc
    ELSE IF Len(ranked[i].word) < MinWordLength THEN KeywordsFrom(ranked, i + 1, acc)
    ELSE KeywordsFrom(ranked, i + 1,
            Put(acc, ranked[i].word, Override(ranked[i].word, ScoreNormalized(ranked[i].milli))))

(* generate_keywords on the terms of the corpus ranked by mean TF-IDF,
   highest first; a corpus whose vocabulary is empty makes the vectorizer
   raise, which is caught and reported as the empty mapping *)
GenerateKeywords(ranked) ==
    KeywordsFrom(SubSeq(ranked, 1, Min(MaxKeywords, Len(ranked))), 1, EmptyMap)

RECURSIVE EntriesOf(_, _)
EntriesOf(kw, S) ==
    IF S = {} THEN <<>>
    ELSE LET w == CHOOSE x \in S : TRUE
         IN  <<Row(w, IntCell(kw[w]))>> \o EntriesOf(kw, S \ {w})

(* json.dump(keywords): the file that json.load reads back *)
JsonDump(kw) == Json(EntriesOf(kw, DOMAIN kw))

NoTexts == [texts |-> FALSE, ranked |-> <<>>]

Fetched(ranked) == [texts |-> TRUE, ranked |-> ranked]

Corpora ==
    { NoTexts,
      Fetched(<<>>),
      Fetched(<< Weighted(A, 900) >>),
      Fetched(<< Weighted(Gappei, 280) >>),
      Fetched(<< Weighted(Gappei, 455), Weighted(Kuroji, 120) >>),
      Fetched(<< Weighted(Kuroji, 620), Weighted(Gappei, 260), Weighted(Akaji, 30) >>) }

----------------------------------------------------------------------------
(* State *)

VARIABLES
    keywords,       \* keyword_dict.keywords
    source_type,    \* keyword_dict.source_type
    source_path,    \* keyword_dict.source_path
    userFile,       \* the file at config.custom_dictionary_path
    autoFile,       \* the file at config.auto_dictionary_path
    customSuffix,   \* config.custom_dictionary_path.suffix.lower()
    backups,        \* the files of config.backup_dir, by name
    threshold,      \* IRNotifier.threshold
    webhook,        \* IRNotifier.webhook_url
    now,            \* datetime.now(), in seconds
    importTime,     \* datetime.now() when notifier.py was imported
    inbox,          \* the documents the readers hand to the scorer
    result,         \* the ScoringResult awaiting its decision
    outcome,        \* the NotificationResult of the last decision
    ledger,         \* the files score_log_<day>.csv of config.logs_dir
    sendCalls,      \* calls of _send_slack_notification
    posts,          \* HTTP posts to the webhook
    decisions,      \* calls of notify_if_significant
    loader,         \* the assignments a running load() has still to make
    batch,          \* the documents the file task has still to process
    awaiting,       \* per task, the result whose delivery is awaited
    is_watching,    \* IRWatcher.is_watching
    observer,       \* IRWatcher.observer
    watch_dir,      \* IRWatcher.watch_dir
    running,        \* the Observer threads started and not stopped
    last            \* the last operation, its inputs and what it returned

storeVars == <<keywords, source_type, source_path>>

fileVars == <<userFile, autoFile, customSuffix, inbox>>

notifierVars == <<threshold, webhook, importTime, outcome, ledger, sendCalls, posts, decisions>>

taskVars == <<loader, batch, awaiting>>

watcherVars == <<is_watching, observer, watch_dir, running>>

vars == <<keywords, source_type, source_path, userFile, autoFile, customSuffix,
          backups, threshold, webhook, now, importTime, inbox, result, outcome, ledger,
          sendCalls, posts, decisions, loader, batch, awaiting,
          is_watching, observer, watch_dir, running, last>>

CurrentStore == Store(keywords, source_type, source_path)

NoResult == [score |-> -1]

NoOutcome == [success |-> FALSE, message |-> "", timestamp |-> -1]

Docs ==
    { Doc(<<>>, 0),
      Doc(<<>>, 3),
      Doc(<<"a", " ", "a", " ", "b">>, 0),
      Doc(<<"b", " ", "a">>, 0),
      Doc(<<"a", " ", "b">>, 0),
      Doc(<<"a", "b">>, 0),
      Doc(<<"a", " ", "a">>, 1597) }

(* the dictionary of TestScorer.setUp *)
TestDict ==
    Put(Put(Put(Put(Put(Put(Put(EmptyMap, Akaji, 8), Kuroji, 5), Zoueki, 6),
        Geneki, 7), Gappei, 6), JoujouHaishi, 9), Genson, 8)

(* a dictionary of two terms of score 8 *)
PairDict == Put(Put(EmptyMap, A, 8), B, 8)

TestPath == "test_dict.json"

(* a body in which akaji occurs twice and genson once, as words of their own *)
HighImpactSpaced == Doc(Akaji \o <<" ">> \o Akaji \o <<" ">> \o Genson, 0)

(* the same occurrences inside running text, as in the body of
   test_calculate_score_high, where every neighbour is a word character *)
HighImpactRunning ==
    Doc(<<"x">> \o Akaji \o <<"x">> \o Akaji \o <<"x">> \o Genson \o <<"x">>, 0)

ScorerDocs ==
    { Doc(<<>>, 0),
      Doc(<<"a", " ", "a", " ", "b">>, 195),
      Doc(<<"a", " ", "a", " ", "a", " ", "a", " ", "a", " ", "a", " ", "a">>, 0),
      Doc(<<"a", " ", "b">>, 1599),
      Doc(<<"a", "b", " ", "b", "a">>, 0),
      HighImpactSpaced,
      HighImpactRunning }

(* a CSV file as pandas reads it: its columns and the content cell of
   each row *)
Csv(cols, rows) == [cols |-> cols, rows |-> rows]

CsvTwoRows ==
    Csv({"symbol", "title", "content"},
        <<Doc(<<"b", " ", "a">>, 0), Doc(<<"a", " ", "b">>, 0)>>)

CsvOneRow == Csv({"content"}, <<Doc(<<"a", " ", "b">>, 0)>>)

CsvNoRows == Csv({"title", "content"}, <<>>)

CsvNoContent ==
    Csv({"symbol", "title", "body"},
        <<Doc(<<"b", " ", "a">>, 0), Doc(<<"a", " ", "b">>, 0)>>)

CsvFiles == {CsvTwoRows, CsvOneRow, CsvNoRows, CsvNoContent}

(* the document read_from_csv returns when reading fails; its content is
   the failure message, which ends with the name of the missing column *)
ErrorDocument ==
    Doc(<<"f", "a", "i", "l", "e", "d", ":", " ",
          "c", "o", "n", "t", "e", "n", "t">>, 0)

(* IRReader.read_from_csv: the documents returned *)
ReadFromCsv(csv) == IF "content" \in csv.cols THEN csv.rows ELSE <<ErrorDocument>>

(* arguments of _adjust_score_by_frequency *)
Bases == {3, 8}

Counts == {0, 1, 2, 6, 11}

Lengths == {1, 200, 500, 501, 600, 1000, 1001, 1600, 2000, 3200}

Thresholds == {0, 13}

Placeholder == "https://hooks.slack.com/services/XXXXX"

Webhooks == {"", Placeholder, "https://hooks.slack.com/services/T1"}

(* the coroutines that score and decide: the one processing a file and the
   one scoring the text entered *)
Tasks == {"file", "text"}

(* no load() under way *)
NoLoad ==
    [todo |-> <<>>,
     before |-> Store(EmptyMap, NoneValue, NoneValue),
     after |-> Store(EmptyMap, NoneValue, NoneValue)]

(* IRWatcher.observer when no Observer has been created *)
NoObserver == 0

(* nothing backed up, nothing scored, nothing logged, no load or delivery
   under way, the watcher as IRWatcher.__init__ leaves it *)
Idle ==
    /\ loader = NoLoad
    /\ batch = <<>>
    /\ awaiting = [t \in Tasks |-> NoResult]
    /\ is_watching = FALSE
    /\ observer = NoObserver
    /\ watch_dir = NoneValue
    /\ running = {}
    /\ backups = EmptyMap
    /\ now = 0
    /\ importTime = 0
    /\ result = NoResult
    /\ outcome = NoOutcome
    /\ ledger = EmptyMap
    /\ sendCalls = 0
    /\ posts = 0
    /\ decisions = 0
    /\ last = [op |-> "init"]

(* the process after its modules are imported: nothing loaded *)
Fresh ==
    /\ keywords = EmptyMap
    /\ source_type = NoneValue
    /\ source_path = NoneValue
    /\ Idle

(* dictionary store and scorer, over every dictionary file the user may
   leave in place *)
StoreInit ==
    /\ Fresh
    /\ userFile \in UserFiles \cup {Absent}
    /\ autoFile \in AutoFiles \cup {Absent}
    /\ customSuffix \in Suffixes
    /\ inbox = Docs
    /\ threshold = DefaultThreshold
    /\ webhook = Placeholder

(* scorer and notifier, over the configured threshold and webhook *)
NotifyInit ==
    /\ Fresh
    /\ userFile = UserCurated
    /\ autoFile = Absent
    /\ customSuffix = ".xlsx"
    /\ inbox = {Doc(<<>>, 0), Doc(<<"b", " ", "a">>, 0), Doc(<<"a", " ", "b">>, 0)}
    /\ threshold \in Thresholds
    /\ webhook \in Webhooks

(* the scorer over a dictionary set in the store directly, as
   TestScorer.setUp does *)
ScorerInit ==
    /\ Idle
    /\ keywords \in {TestDict, PairDict}
    /\ source_type = "test"
    /\ source_path = TestPath
    /\ userFile = Absent
    /\ autoFile = Absent
    /\ customSuffix = ".xlsx"
    /\ inbox = ScorerDocs
    /\ threshold = DefaultThreshold
    /\ webhook = Placeholder

(* the store reloaded while documents are scored *)
ReloadInit ==
    /\ Fresh
    /\ userFile \in {UserCurated, UserPartial, Absent}
    /\ autoFile \in {AutoGood, AutoPartial}
    /\ customSuffix = ".xlsx"
    /\ inbox = {Doc(<<"b", " ", "a">>, 0), Doc(<<"a", " ", "b">>, 0)}
    /\ threshold = DefaultThreshold
    /\ webhook = Placeholder

(* dictionary store and generator *)
GeneratorInit ==
    /\ Fresh
    /\ userFile \in {UserCurated, Absent}
    /\ autoFile \in {AutoGood, Absent}
    /\ customSuffix = ".xlsx"
    /\ inbox = {}
    /\ threshold = DefaultThreshold
    /\ webhook = Placeholder

----------------------------------------------------------------------------
(* The environment: the clock and the user's dictionary files *)

Tick ==
    /\ now < MaxTime
    /\ now' = now + 1
    /\ last' = [op |-> "tick"]
    /\ UNCHANGED <<taskVars, watcherVars, storeVars, fileVars, backups, notifierVars, result>>

WriteUserFile ==
    /\ \E f \in UserFiles \cup {Absent} : f # userFile /\ userFile' = f
    /\ last' = [op |-> "edit"]
    /\ UNCHANGED <<taskVars, watcherVars, storeVars, autoFile, customSuffix, inbox, backups, notifierVars, now, result>>

WriteAutoFile ==
    /\ \E f \in AutoFiles \cup {Absent} : f # autoFile /\ autoFile' = f
    /\ last' = [op |-> "edit"]
    /\ UNCHANGED <<taskVars, watcherVars, storeVars, userFile, customSuffix, inbox, backups, notifierVars, now, result>>

(* the user deletes a dictionary file *)
DeleteFile ==
    /\ \E path \in {UserPath, AutoPath} :
          /\ Exists(IF path = UserPath THEN userFile ELSE autoFile)
          /\ userFile' = IF path = UserPath THEN Absent ELSE userFile
          /\ autoFile' = IF path = AutoPath THEN Absent ELSE autoFile
    /\ last' = [op |-> "delete"]
    /\ UNCHANGED <<taskVars, watcherVars, storeVars, customSuffix, inbox, backups, notifierVars, now, result>>

----------------------------------------------------------------------------
(* Operations *)

Load ==
    LET r == LoadResult(CurrentStore, userFile, autoFile, customSuffix)
    IN  /\ keywords' = r.store.keywords
        /\ source_type' = r.store.source_type
        /\ source_path' = r.store.source_path
        /\ last' = [op |-> "load", ok |-> r.ok, before |-> CurrentStore]
        /\ UNCHANGED <<taskVars, watcherVars, fileVars, backups, notifierVars, now, result>>

Score ==
    \E doc \in inbox :
        LET r == CalculateScore(CurrentStore, userFile, autoFile, customSuffix, doc)
        IN  /\ keywords' = r.store.keywords
            /\ source_type' = r.store.source_type
            /\ source_path' = r.store.source_path
            /\ result' = r.result
            /\ last' = [op |-> "score", loaded |-> r.loaded]
            /\ UNCHANGED <<taskVars, watcherVars, fileVars, backups, notifierVars, now>>

(* load() called from reload_dictionary while readers may run: the call
   starts, having its assignments still to make *)
LoadBegin ==
    /\ loader.todo = <<>>
    /\ \E todo \in {LoadAssignments(CurrentStore, userFile, autoFile, customSuffix)} :
          /\ todo # <<>>
          /\ loader' = [todo |-> todo, before |-> CurrentStore,
                        after |-> LoadResult(CurrentStore, userFile, autoFile,
                                             customSuffix).store]
    /\ last' = [op |-> "load_begin"]
    /\ UNCHANGED <<batch, awaiting, watcherVars, storeVars, fileVars, backups,
                   notifierVars, now, result>>

(* the next assignment of the running load(); the call returns with the
   last one *)
LoadStep ==
    /\ loader.todo # <<>>
    /\ keywords' = Head(loader.todo).keywords
    /\ source_type' = Head(loader.todo).source_type
    /\ source_path' = Head(loader.todo).source_path
    /\ loader' = IF Tail(loader.todo) = <<>> THEN NoLoad
                 ELSE [loader EXCEPT !.todo = Tail(@)]
    /\ last' = [op |-> "load_step", returns |-> Tail(loader.todo) = <<>>,
                expected |-> loader.after]
    /\ UNCHANGED <<batch, awaiting, watcherVars, fileVars, backups, notifierVars,
                   now, result>>

(* one call of IRScorer._adjust_score_by_frequency *)
AdjustScore ==
    /\ \E base \in Bases, count \in Counts, len \in Lengths :
          last' = [op |-> "adjust", base |-> base, count |-> count, len |-> len,
                   frequency |-> <<FrequencyFifths(count), 5>>,
                   length |-> LengthFactor(len),
                   adjusted |-> AdjustScoreByFrequency(base, count, len)]
    /\ UNCHANGED <<taskVars, watcherVars, storeVars, fileVars, backups, notifierVars, now, result>>

(* KeywordDictionary.backup_current_dictionary *)
FileAt(path) == IF path = UserPath THEN userFile ELSE autoFile

(* the test "self.source_path.exists()" left out *)
CanBackupUnchecked == source_path # NoneValue

CanBackup == source_path # NoneValue /\ Exists(FileAt(source_path))

(* <stem>_<YYYYMMDD_HHMMSS><suffix> in config.backup_dir *)
BackupName(path, time) ==
    [stem |-> IF path = UserPath THEN "keywords" ELSE "auto_keywords",
     timestamp |-> time,
     suffix |-> IF path = UserPath THEN customSuffix ELSE ".json"]

BackupsAfter == IF CanBackup
                THEN Put(backups, BackupName(source_path, now), FileAt(source_path))
                ELSE backups

(* returned holds the path returned, and is empty when None is returned *)
BackupCurrentDictionary ==
    /\ backups' = BackupsAfter
    /\ last' = [op |-> "backup",
                returned |-> IF CanBackup THEN <<BackupName(source_path, now)>> ELSE <<>>]
    /\ UNCHANGED <<taskVars, watcherVars, storeVars, fileVars, notifierVars, now, result>>

(* what the file system does when the generated dictionary is saved: the
   save goes through, mkdir or open(path, 'w') raises and leaves the file as
   it was, or json.dump raises after open(path, 'w') has truncated the file *)
Saves == {"ok", "open", "write"}

(* the file at config.auto_dictionary_path after open(path, 'w') and json.dump *)
SavedFile(file, generated, save) ==
    IF save = "ok" THEN JsonDump(generated)
    ELSE IF save = "write" THEN Corrupt
    ELSE file

(* AutoKeywordGenerator.generate_dictionary; corpus is what fetch_ir_news
   brings back, save what happens when the file is written *)
GenerateDictionary ==
    \E corpus \in Corpora, save \in Saves :
        LET generated == IF corpus.texts THEN GenerateKeywords(corpus.ranked) ELSE EmptyMap
            reached == DOMAIN generated # {}
            saved == reached /\ save = "ok"
        IN  /\ backups' = BackupsAfter
            /\ autoFile' = IF reached THEN SavedFile(autoFile, generated, save) ELSE autoFile
            /\ last' = [op |-> "generate", corpus |-> corpus, generated |-> generated,
                        save |-> IF reached THEN save ELSE "none",
                        returned |-> IF saved THEN generated ELSE EmptyMap,
                        overwrote |-> saved /\ Exists(autoFile)]
            /\ UNCHANGED <<taskVars, watcherVars, storeVars, userFile, customSuffix, inbox, notifierVars, now, result>>

----------------------------------------------------------------------------
(* IRNotifier *)

Outcome(success, message) ==
    [success |-> success, message |-> message, timestamp |-> importTime]

(* the test for the placeholder URL left out *)
ConfiguredNonEmpty(url) == url # ""

Configured(url) == url \notin {"", Placeholder}

Deliveries == {"200", "500", "raise"}

(* _send_slack_notification: delivery is the answer of the webhook, "200",
   another status, or an exception raised by the post ("raise"); building
   the message reads string fields only and raises nothing *)
SendSlackNotification(delivery) ==
    IF ~Configured(webhook)
    THEN [raised |-> FALSE, posted |-> 0, outcome |-> Outcome(FALSE, "unconfigured")]
    ELSE IF delivery = "raise"
    THEN [raised |-> TRUE, posted |-> 1, outcome |-> NoOutcome]
    ELSE IF delivery = "200"
    THEN [raised |-> FALSE, posted |-> 1, outcome |-> Outcome(TRUE, "sent")]
    ELSE [raised |-> FALSE, posted |-> 1, outcome |-> Outcome(FALSE, "delivery failed")]

DayOf(time) == time \div TicksPerDay

Header == [header |-> TRUE]

LogRow(res, out, time) ==
    [header |-> FALSE, datetime |-> time, score |-> res.score, notified |-> out.success,
     dictionary_type |-> res.dictionary_type, keywords_used |-> res.used_keywords,
     notification_message |-> out.message]

(* the header written on every call, whether or not the file exists *)
LogResultOnReheading(led, res, out) ==
    LET day == DayOf(now)
    IN  IF day \in DOMAIN led
        THEN [led EXCEPT ![day] = @ \o <<Header, LogRow(res, out, now)>>]
        ELSE Put(led, day, <<Header, LogRow(res, out, now)>>)

(* _log_result on the ledger led: the ledger after the row is appended *)
LogResultOn(led, res, out) ==
    LET day == DayOf(now)
    IN  IF day \in DOMAIN led
        THEN [led EXCEPT ![day] = Append(@, LogRow(res, out, now))]
        ELSE Put(led, day, <<Header, LogRow(res, out, now)>>)

(* the file opened with mode 'w' in place of 'a' *)
LogResultTruncating(res, out) ==
    Put(ledger, DayOf(now), <<Header, LogRow(res, out, now)>>)

(* _log_result: the ledger after the row is appended *)
LogResult(res, out) == LogResultOn(ledger, res, out)

(* "<=" in place of "<" *)
BelowOrAtThreshold(score) == score <= threshold

(* result.score < self.threshold *)
BelowThreshold(score) == score < threshold

(* the except clause of notify_if_significant left out *)
AfterSendUncaught(sent) ==
    [escaped |-> sent.raised, outcome |-> sent.outcome]

(* the try/except around _send_slack_notification: what the call returns,
   or escaped when the exception leaves notify_if_significant *)
AfterSend(sent) ==
    IF sent.raised
    THEN [escaped |-> FALSE, outcome |-> Outcome(FALSE, "error")]
    ELSE [escaped |-> FALSE, outcome |-> sent.outcome]

(* notify_if_significant(res) on the ledger led: the outcome returned, the
   ledger afterwards, whether _send_slack_notification was called (sent),
   whether a post was made (posted) and whether an exception escaped *)
Decide(res, led, delivery) ==
    LET sent == SendSlackNotification(delivery)
        after == AfterSend(sent)
    IN  IF BelowThreshold(res.score)
        THEN [escaped |-> FALSE, outcome |-> Outcome(FALSE, "below threshold"),
              ledger |-> LogResultOn(led, res, Outcome(FALSE, "below threshold")),
              sent |-> 0, posted |-> 0]
        ELSE IF after.escaped
        THEN [escaped |-> TRUE, outcome |-> NoOutcome, ledger |-> led,
              sent |-> 1, posted |-> sent.posted]
        ELSE [escaped |-> FALSE, outcome |-> after.outcome,
              ledger |-> LogResultOn(led, res, after.outcome),
              sent |-> 1, posted |-> sent.posted]

(* notify_if_significant on the pending scoring result *)
NotifyIfSignificant ==
    /\ result # NoResult
    /\ decisions < MaxDecisions
    /\ \E delivery \in Deliveries :
        LET d == Decide(result, ledger, delivery)
            below == BelowThreshold(result.score)
            out == d.outcome
        IN  /\ outcome' = IF d.escaped THEN outcome ELSE out
            /\ ledger' = IF d.escaped THEN ledger ELSE LogResult(result, out)
            /\ sendCalls' = IF below THEN sendCalls ELSE sendCalls + 1
            /\ posts' = IF below THEN posts ELSE posts + d.posted
            /\ last' = [op |-> "notify", score |-> result.score, delivery |-> delivery,
                        sent |-> d.sent, posted |-> d.posted, escaped |-> d.escaped]
    /\ decisions' = decisions + 1
    /\ result' = NoResult
    /\ UNCHANGED <<taskVars, watcherVars, storeVars, fileVars, backups, threshold, webhook, importTime, now>>

(* one round of the loop of _process_file_async: calculate_score on the
   document, then notify_if_significant on its result; escaped when an
   exception leaves notify_if_significant.  Each call is bound once. *)
ProcessDocument(st, doc, delivery) ==
    CHOOSE after \in
        UNION { { [escaped |-> d.escaped,
                   state |-> [store |-> r.store,
                              outcome |-> IF d.escaped THEN st.outcome ELSE d.outcome,
                              ledger |-> d.ledger,
                              sendCalls |-> st.sendCalls + d.sent,
                              posts |-> st.posts + d.posted,
                              decisions |-> st.decisions + 1,
                              scored |-> st.scored + 1]] :
                    d \in {Decide(r.result, st.ledger, delivery)} } :
                r \in {CalculateScore(st.store, userFile, autoFile, customSuffix, doc)} } :
        TRUE

(* the loop of _process_file_async over the documents of a CSV file, from
   document i on; an exception leaving notify_if_significant ends the loop
   in the handler's except *)
RECURSIVE ProcessDocuments(_, _, _, _)
ProcessDocuments(docs, i, st, deliveries) ==
    IF i > Len(docs) THEN st
    ELSE CHOOSE final \in
             { IF after.escaped THEN after.state
               ELSE ProcessDocuments(docs, i + 1, after.state, deliveries) :
                   after \in {ProcessDocument(st, docs[i], deliveries[i])} } :
             TRUE

(* IRNotifierGUI._process_file_async and FileWatcher.process_new_file on a
   file with suffix .csv *)
ProcessCsv ==
    \E csv \in CsvFiles :
        \E docs \in {ReadFromCsv(csv)} :
            /\ decisions + Len(docs) <= MaxDecisions
            /\ \E deliveries \in [1..Len(docs) -> Deliveries] :
                \E final \in {ProcessDocuments(docs, 1,
                                  [store |-> CurrentStore, outcome |-> outcome,
                                   ledger |-> ledger, sendCalls |-> sendCalls,
                                   posts |-> posts, decisions |-> decisions,
                                   scored |-> 0],
                                  deliveries)} :
                    /\ keywords' = final.store.keywords
                    /\ source_type' = final.store.source_type
                    /\ source_path' = final.store.source_path
                    /\ outcome' = final.outcome
                    /\ ledger' = final.ledger
                    /\ sendCalls' = final.sendCalls
                    /\ posts' = final.posts
                    /\ decisions' = final.decisions
                    /\ last' = [op |-> "process_csv",
                                accepted |-> "content" \in csv.cols,
                                rows |-> Len(csv.rows),
                                scored |-> final.scored]
            /\ UNCHANGED <<taskVars, watcherVars, fileVars, backups, threshold, webhook, importTime, now, result>>

(* IRWatcher *)

(* what the file system holds at the paths handed to start_watching *)
PathKind ==
    [p \in {"inbox", "archive", "notes.txt", "gone"} |->
        IF p = "gone" THEN "missing" ELSE IF p = "notes.txt" THEN "file" ELSE "dir"]

(* where start_watching may raise once the directory tests have passed:
   in IRFileHandler(), in observer.schedule(), in observer.start() *)
StartFaults == {"none", "handler", "schedule", "start"}

(* where stop_watching may raise: in observer.stop(), in observer.join() *)
StopFaults == {"none", "stop", "join"}

WatcherState == [is_watching |-> is_watching, observer |-> observer, watch_dir |-> watch_dir]

(* the guard left out: a start is never refused *)
StartRefusedNever(watching) == FALSE

(* "if self.is_watching: return False" *)
StartRefused(watching) == watching

(* is_active() *)
IsActive == is_watching

(* get_watch_dir() *)
GetWatchDir == IF is_watching THEN watch_dir ELSE NoneValue

(* start_watching(directory) *)
StartWatching ==
    /\ \E directory \in DOMAIN PathKind, fault \in StartFaults :
          IF StartRefused(is_watching) \/ PathKind[directory] # "dir"
          THEN /\ last' = [op |-> "start_watching", returned |-> FALSE,
                           was |-> WatcherState, directory |-> directory]
               /\ UNCHANGED watcherVars
          ELSE /\ observer < MaxObservers
               /\ watch_dir' = directory
               /\ observer' = observer + 1
               /\ is_watching' = (is_watching \/ fault = "none")
               /\ running' = IF fault = "none" THEN running \cup {observer + 1} ELSE running
               /\ last' = [op |-> "start_watching", returned |-> fault = "none",
                           was |-> WatcherState, directory |-> directory]
    /\ UNCHANGED <<taskVars, storeVars, fileVars, backups, notifierVars, now, result>>

(* stop_watching() *)
StopWatching ==
    /\ \E fault \in StopFaults :
          IF ~is_watching \/ observer = NoObserver
          THEN /\ last' = [op |-> "stop_watching", returned |-> FALSE, was |-> WatcherState]
               /\ UNCHANGED watcherVars
          ELSE /\ running' = IF fault = "stop" THEN running ELSE running \ {observer}
               /\ is_watching' = (fault # "none")
               /\ last' = [op |-> "stop_watching", returned |-> fault = "none",
                           was |-> WatcherState]
               /\ UNCHANGED <<observer, watch_dir>>
    /\ UNCHANGED <<taskVars, storeVars, fileVars, backups, notifierVars, now, result>>

(* notify_if_significant reaches "await client.post(...)" for this result *)
NeedsPost(res) == ~BelowThreshold(res.score) /\ Configured(webhook)

(* one task runs from calculate_score to its next await: the document is
   scored and notify_if_significant is entered; either it returns at once
   (below the threshold, or no webhook), the record appended, or the post
   is sent and the task waits for the answer *)
TaskScore(task, doc) ==
    \E r \in {CalculateScore(CurrentStore, userFile, autoFile, customSuffix, doc)} :
        \E d \in {Decide(r.result, ledger, "200")} :
            /\ keywords' = r.store.keywords
            /\ source_type' = r.store.source_type
            /\ source_path' = r.store.source_path
            /\ decisions' = decisions + 1
            /\ sendCalls' = sendCalls + d.sent
            /\ IF NeedsPost(r.result)
               THEN /\ awaiting' = [awaiting EXCEPT ![task] = r.result]
                    /\ posts' = posts + 1
                    /\ UNCHANGED <<outcome, ledger>>
               ELSE /\ outcome' = d.outcome
                    /\ ledger' = d.ledger
                    /\ UNCHANGED <<awaiting, posts>>
            /\ last' = [op |-> "score_and_decide", task |-> task,
                        posted |-> NeedsPost(r.result)]

(* process_new_file reads the file it was called for *)
ReadFile ==
    /\ batch = <<>>
    /\ awaiting["file"] = NoResult
    /\ \E csv \in CsvFiles :
          /\ ReadFromCsv(csv) # <<>>
          /\ decisions + Len(ReadFromCsv(csv)) <= MaxDecisions
          /\ batch' = ReadFromCsv(csv)
    /\ last' = [op |-> "read_file"]
    /\ UNCHANGED <<loader, awaiting, watcherVars, storeVars, fileVars, backups,
                   notifierVars, now, result>>

(* one round of the loop of process_new_file, up to its await *)
FileScore ==
    /\ batch # <<>>
    /\ awaiting["file"] = NoResult
    /\ TaskScore("file", Head(batch))
    /\ batch' = Tail(batch)
    /\ UNCHANGED <<loader, watcherVars, fileVars, backups, threshold, webhook,
                   importTime, now, result>>

(* _calculate_score_from_text_async, up to its await *)
TextScore ==
    /\ awaiting["text"] = NoResult
    /\ decisions + Len(batch) < MaxDecisions
    /\ \E doc \in inbox : TaskScore("text", doc)
    /\ UNCHANGED <<loader, batch, watcherVars, fileVars, backups, threshold, webhook,
                   importTime, now, result>>

(* the answer to a post arrives, or the post raises (a timeout included);
   the waiting task runs notify_if_significant to its end *)
DeliveryReturns ==
    /\ \E task \in Tasks :
          /\ awaiting[task] # NoResult
          /\ \E delivery \in Deliveries :
                \E d \in {Decide(awaiting[task], ledger, delivery)} :
                    /\ outcome' = IF d.escaped THEN outcome ELSE d.outcome
                    /\ ledger' = d.ledger
                    /\ last' = [op |-> "delivery_returns", task |-> task,
                                delivery |-> delivery, escaped |-> d.escaped]
          /\ awaiting' = [awaiting EXCEPT ![task] = NoResult]
    /\ UNCHANGED <<loader, batch, watcherVars, storeVars, fileVars, backups, threshold,
                   webhook, importTime, sendCalls, posts, decisions, now, result>>

----------------------------------------------------------------------------
(* Specifications *)

StoreNext ==
    \/ WriteUserFile
    \/ WriteAutoFile
    \/ Load
    \/ Score

SpecStore == StoreInit /\ [][StoreNext]_vars

NotifyNext ==
    \/ Tick
    \/ Score
    \/ NotifyIfSignificant

SpecNotify == NotifyInit /\ [][NotifyNext]_vars

ScorerNext ==
    \/ Score
    \/ AdjustScore

SpecScorer == ScorerInit /\ [][ScorerNext]_vars

(* a dictionary file deleted while no load() is under way *)
DeleteFileBetweenLoads == loader.todo = <<>> /\ DeleteFile

ReloadNext ==
    \/ LoadBegin
    \/ LoadStep
    \/ DeleteFileBetweenLoads
    \/ Score

SpecReload == ReloadInit /\ [][ReloadNext]_vars

(* the watcher of a started application *)
WatcherInit ==
    /\ Fresh
    /\ userFile = UserCurated
    /\ autoFile = Absent
    /\ customSuffix = ".xlsx"
    /\ inbox = {Doc(<<"a", " ", "b">>, 0)}
    /\ threshold = DefaultThreshold
    /\ webhook = Placeholder

WatcherNext ==
    \/ StartWatching
    \/ StopWatching

SpecWatcher == WatcherInit /\ [][WatcherNext]_vars

TasksNext ==
    \/ Tick
    \/ ReadFile
    \/ FileScore
    \/ TextScore
    \/ DeliveryReturns

SpecTasks == NotifyInit /\ [][TasksNext]_vars

BatchNext ==
    \/ Tick
    \/ ProcessCsv

SpecBatch == NotifyInit /\ [][BatchNext]_vars

GeneratorNext ==
    \/ Tick
    \/ DeleteFile
    \/ Load
    \/ BackupCurrentDictionary
    \/ GenerateDictionary

SpecGenerator == GeneratorInit /\ [][GeneratorNext]_vars

----------------------------------------------------------------------------
(* What the dictionary files say, read off the file and not off the loader *)

UserWord(file, i) == Strip(StrOf(file.rows[i].word))

UserParses(file, suffix) ==
    /\ suffix \in {".xlsx", ".csv"}
    /\ file.kind = "table"
    /\ {"word", "score"} \subseteq file.cols
    /\ \A i \in 1..Len(file.rows) :
          UserWord(file, i) # <<>> => ~IntRaises(file.rows[i].score)

CuratedEntries(file) ==
    LET kept == { i \in 1..Len(file.rows) : UserWord(file, i) # <<>> }
        lastRow(w) == CHOOSE i \in kept :
                        /\ UserWord(file, i) = w
                        /\ \A j \in kept : UserWord(file, j) = w => j <= i
    IN  [w \in { UserWord(file, i) : i \in kept } |-> IntOf(file.rows[lastRow(w)].score)]

AutoWord(file, i) == Strip(file.entries[i].word)

AutoKept(file) ==
    { i \in 1..Len(file.entries) :
        AutoWord(file, i) # <<>> /\ IsNumber(file.entries[i].score) }

AutoParses(file) ==
    /\ file.kind = "json"
    /\ \A i \in AutoKept(file) : ~IntRaises(file.entries[i].score)

GeneratedEntries(file) ==
    LET lastEntry(w) == CHOOSE i \in AutoKept(file) :
                          /\ AutoWord(file, i) = w
                          /\ \A j \in AutoKept(file) : AutoWord(file, j) = w => j <= i
    IN  [w \in { AutoWord(file, i) : i \in AutoKept(file) } |->
            IntOf(file.entries[lastEntry(w)].score)]

Scored == last.op = "score"

BodyIsEmpty(doc) == doc.text = <<>> /\ doc.pad = 0

Loaded == last.op = "load"

ContributionSum(res) == SumOver(res.used_keywords, DOMAIN res.used_keywords)

DataRows(file) == { i \in 1..Len(file) : ~file[i].header }

RECURSIVE CountDataRows(_, _)
CountDataRows(led, days) ==
    IF days = {} THEN 0
    ELSE LET d == CHOOSE x \in days : TRUE
         IN  Cardinality(DataRows(led[d])) + CountDataRows(led, days \ {d})

----------------------------------------------------------------------------
(* Claims *)

(* C1: for every document and every dictionary state, curated dictionaries
   with negative scores or scores far above 10 included, the score returned
   by calculate_score is an integer in [0,100]. *)
C1_ScoreBounded == Scored => result.score \in MinScore..MaxScore

C1_Witness ==
    /\ Scored
    /\ ContributionSum(result) > MaxScore
    /\ \E w \in DOMAIN keywords : keywords[w] > GeneratedMax

(* C2: used_keywords holds only terms with a positive base score that occur
   at least once in the body; a body in which no term occurs gets the empty
   mapping, and a multi-word term whose words co-occur without the literal
   phrase is not in the mapping. *)
C2_ContributionsMatched ==
    Scored =>
        \A w \in DOMAIN result.used_keywords :
            /\ GetWordScore(keywords, w) > 0
            /\ FindAllCount(w, result.document.text) > 0

(* C3: on a document whose body is empty, calculate_score returns score 0
   and an empty contribution mapping, whatever the dictionary state. *)
C3_EmptyBody ==
    (Scored /\ BodyIsEmpty(result.document)) =>
        /\ result.score = 0
        /\ DOMAIN result.used_keywords = {}

C3_Witness ==
    /\ Scored
    /\ BodyIsEmpty(result.document)
    /\ \E w \in DOMAIN keywords : keywords[w] > 0

(* C4 as stated: the provenance is "none" in both short-circuit cases, the
   empty body and the dictionary that is neither loaded nor loadable. *)
C4_NoneOnShortCircuit ==
    (Scored /\ (BodyIsEmpty(result.document) \/ last.loaded = "failed")) =>
        result.dictionary_type = "none"

(* C4 amended: the provenance is "none" when no dictionary is loaded and
   load() fails; for an empty body with a dictionary in the store it is the
   store's source type, "user" or "auto", and "none" only when the store has
   no source type. *)
C4_ProvenanceOnShortCircuit ==
    Scored =>
        /\ last.loaded = "failed" => result.dictionary_type = "none"
        /\ (last.loaded # "failed" /\ BodyIsEmpty(result.document)) =>
              result.dictionary_type =
                  (IF source_type = NoneValue THEN "none" ELSE source_type)

C4_Witness ==
    /\ Scored
    /\ BodyIsEmpty(result.document)
    /\ result.dictionary_type = "user"

(* C5: every call of notify_if_significant appends exactly one record to
   the audit ledger, whatever the outcome: after n calls the ledger files
   together hold exactly n data rows. *)
C5_OneRowPerDecision == CountDataRows(ledger, DOMAIN ledger) = decisions

C5_Witness ==
    /\ decisions >= 2
    /\ outcome.success
    /\ \E d \in DOMAIN ledger : \E i \in DataRows(ledger[d]) : ~ledger[d][i].notified

(* C6: a result whose score equals the threshold is passed to the notifier;
   a result below the threshold never reaches it, yields the not-notified
   outcome with the below-threshold reason, and is still recorded. *)
C6_ThresholdBoundary ==
    [][ decisions' = decisions + 1 =>
          IF result.score >= threshold
          THEN sendCalls' = sendCalls + 1
          ELSE /\ sendCalls' = sendCalls
               /\ posts' = posts
               /\ ~outcome'.success
               /\ outcome'.message = "below threshold"
               /\ CountDataRows(ledger', DOMAIN ledger') =
                      CountDataRows(ledger, DOMAIN ledger) + 1 ]_vars

C6_Witness ==
    /\ last.op = "notify"
    /\ last.score = threshold - 1
    /\ sendCalls = 1
    /\ \E d \in DOMAIN ledger : \E i \in DataRows(ledger[d]) :
          ledger[d][i].score = threshold

(* C7: with both dictionary files present and parseable load() succeeds with
   the curated entries and provenance "user"; with only the generated file
   present it succeeds with the generated entries and provenance "auto";
   with neither present it returns failure. *)
C7_LoadPrecedence ==
    Loaded =>
        /\ (UserParses(userFile, customSuffix) /\ AutoParses(autoFile)) =>
              /\ last.ok
              /\ source_type = "user"
              /\ source_path = UserPath
              /\ keywords = CuratedEntries(userFile)
        /\ (~Exists(userFile) /\ AutoParses(autoFile)) =>
              /\ last.ok
              /\ source_type = "auto"
              /\ source_path = AutoPath
              /\ keywords = GeneratedEntries(autoFile)
        /\ (~Exists(userFile) /\ ~Exists(autoFile)) => ~last.ok

C7_Witness ==
    /\ Loaded
    /\ UserParses(userFile, customSuffix)
    /\ AutoParses(autoFile)
    /\ DOMAIN GeneratedEntries(autoFile) # {}
    /\ source_type = "user"

(* C8: when neither source is present and parseable, load() reports failure,
   the store's mapping is empty, and every later calculate_score returns
   score 0, also after earlier loads. *)
C8_UnavailableMeansEmpty ==
    (~UserParses(userFile, customSuffix) /\ ~AutoParses(autoFile)) =>
        /\ Loaded => (~last.ok /\ DOMAIN keywords = {})
        /\ Scored => result.score = 0

(* C9: a curated file that exists but fails to parse does not abort load():
   when the generated file parses, load() succeeds with exactly the
   generated file's entries and provenance "auto". *)
C9_FallbackOnParseError ==
    (Loaded /\ Exists(userFile) /\ ~UserParses(userFile, customSuffix)
            /\ AutoParses(autoFile)) =>
        /\ last.ok
        /\ source_type = "auto"
        /\ source_path = AutoPath
        /\ keywords = GeneratedEntries(autoFile)

C9_Witness ==
    /\ Loaded
    /\ userFile = UserPartial
    /\ customSuffix = ".xlsx"
    /\ autoFile = AutoGood
    /\ source_type = "auto"

(* C10: each time generate_dictionary regenerates an existing dictionary,
   exactly one new backup file appears in the backup directory. *)
C10_OneBackupPerRegeneration ==
    [][ (last'.op = "generate" /\ last'.overwrote) =>
          Cardinality(DOMAIN backups') = Cardinality(DOMAIN backups) + 1 ]_vars

(* C11: whenever generate_dictionary overwrites an existing dictionary file
   with a freshly generated dictionary, the backup directory holds a
   timestamp-suffixed copy of that file's content as it was before the
   overwrite, whichever source the store has loaded. *)
C11_BackupBeforeOverwrite ==
    [][ (last'.op = "generate" /\ last'.overwrote) =>
          \E name \in DOMAIN backups' : backups'[name] = autoFile ]_vars

(* the floor of a term of the generated dictionary, 0 when it has none *)
FloorOf(word) ==
    IF word \in NegativeEventTerms THEN NegativeFloor
    ELSE IF word \in PositiveEventTerms THEN PositiveFloor
    ELSE 0

(* C12: in every dictionary produced by generate_keywords a negative-event
   term scores at least 8, a positive-event term at least 6, and the score
   of every term is the maximum of its floor and its computed score, so the
   override never lowers a score. *)
C12_OverrideFloors ==
    last.op = "generate" =>
        \A i \in 1..Len(last.corpus.ranked) :
            LET word == last.corpus.ranked[i].word
                computed == ScoreNormalized(last.corpus.ranked[i].milli)
            IN  word \in DOMAIN last.generated =>
                  /\ word \in NegativeEventTerms => last.generated[word] >= NegativeFloor
                  /\ word \in PositiveEventTerms => last.generated[word] >= PositiveFloor
                  /\ last.generated[word] >= computed
                  /\ last.generated[word] = Max(FloorOf(word), computed)

C12_Witness ==
    /\ last.op = "generate"
    /\ {Akaji, Kuroji} \subseteq DOMAIN last.generated
    /\ last.generated[Akaji] = NegativeFloor
    /\ ScoreNormalized(30) < NegativeFloor
    /\ last.generated[Kuroji] > PositiveFloor

(* base * min(2.0, 1.0 + (count-1)*0.2) * min(1.0, 1000/max(500, len)) as
   <<numerator, denominator>> *)
Contribution(base, count, len) ==
    LET fifths == IF count - 1 >= 5 THEN 10 ELSE 5 + (count - 1)
        longer == IF len > FloorLength THEN len ELSE FloorLength
    IN  IF LengthScale >= longer
        THEN <<base * fifths, 5>>
        ELSE <<base * fifths * LengthScale, 5 * longer>>

(* value is an integer nearest to the fraction *)
Nearest(value, fraction) ==
    LET diff == value * fraction[2] - fraction[1]
    IN  2 * (IF diff < 0 THEN 0 - diff ELSE diff) <= fraction[2]

PairExample == Doc(<<"a", " ", "a", " ", "b">>, 195)

(* C13: the contribution of a matched term is
   base * min(2.0, 1.0 + (count-1)*0.2) * min(1.0, 1000/max(500, length))
   rounded to the nearest integer, both in a call of
   _adjust_score_by_frequency and in the used_keywords of a scoring result;
   with the dictionary {a: 8, b: 8} and a body of length 200 holding a twice
   and b once the contributions are 10 and 8 and the score is 18. *)
C13_Contribution ==
    /\ (last.op = "adjust" /\ last.count >= 1) =>
          Nearest(last.adjusted, Contribution(last.base, last.count, last.len))
    /\ Scored =>
          \A w \in DOMAIN result.used_keywords :
              FindAllCount(w, result.document.text) >= 1 =>
                  Nearest(result.used_keywords[w],
                          Contribution(keywords[w],
                                       FindAllCount(w, result.document.text),
                                       Len(result.document.text) + result.document.pad))
    /\ (Scored /\ keywords = PairDict /\ result.document = PairExample) =>
          /\ result.used_keywords = Put(Put(EmptyMap, A, 10), B, 8)
          /\ result.score = 18

C13_Witness ==
    /\ Scored
    /\ keywords = PairDict
    /\ result.document = PairExample
    /\ Len(result.document.text) + result.document.pad = 200
    /\ result.score = 18

(* the length factor of the last call as a fraction, compared with another *)
FactorAbove(f, g) == f[1] * g[2] > g[1] * f[2]

(* C14 as stated: the length factor is 1.0 for every length up to 500, and
   above 500 it never exceeds 1.0 and is strictly decreasing in the length. *)
C14_LengthFactor ==
    last.op = "adjust" =>
        /\ last.len <= FloorLength => last.length[1] = last.length[2]
        /\ last.len > FloorLength =>
              /\ last.length[1] <= last.length[2]
              /\ \A other \in Lengths :
                    other > last.len => FactorAbove(last.length, LengthFactor(other))

(* C14 amended: the length factor is 1.0 for every length up to 1000, and
   above 1000 it never exceeds 1.0 and is strictly decreasing in the
   length. *)
C14_LengthFactorAmended ==
    last.op = "adjust" =>
        /\ last.len <= LengthScale => last.length[1] = last.length[2]
        /\ last.len > LengthScale =>
              /\ last.length[1] <= last.length[2]
              /\ \A other \in Lengths :
                    other > last.len => FactorAbove(last.length, LengthFactor(other))

C14_Witness ==
    /\ last.op = "adjust"
    /\ last.len > LengthScale
    /\ last.length[1] < last.length[2]
    /\ \E other \in Lengths : other > last.len

(* the webhook is set to something other than the placeholder *)
NotifierConfigured == webhook # "" /\ webhook # Placeholder

(* C15: when the delivery raises an exception inside
   notify_if_significant, the exception does not leave the call: it returns
   a not-notified outcome with a non-empty reason, and one record of the
   decision is appended to the ledger. *)
C15_DeliveryErrorContained ==
    [][ (last'.op = "notify" /\ last'.sent = 1 /\ last'.delivery = "raise"
            /\ NotifierConfigured) =>
          /\ ~last'.escaped
          /\ ~outcome'.success
          /\ outcome'.message # ""
          /\ outcome'.message = "error"
          /\ CountDataRows(ledger', DOMAIN ledger') =
                 CountDataRows(ledger, DOMAIN ledger) + 1
          /\ \E d \in DOMAIN ledger' :
                \E i \in DataRows(ledger'[d]) :
                    /\ ~ledger'[d][i].notified
                    /\ ledger'[d][i].notification_message = "error" ]_vars

C15_Witness ==
    /\ last.op = "notify"
    /\ last.delivery = "raise"
    /\ last.posted = 1
    /\ ~last.escaped
    /\ outcome.message = "error"
    /\ CountDataRows(ledger, DOMAIN ledger) = decisions

(* C16: for a score at or above the threshold the outcome is notified
   exactly when the notifier is configured and the delivery reports success;
   an unconfigured notifier gives not-notified with the unconfigured reason
   and no post; a failed delivery gives not-notified with the delivery-error
   reason.  Hence a notified outcome implies a score at or above the
   threshold. *)
C16_OutcomeMapping ==
    last.op = "notify" =>
        /\ last.score >= threshold =>
              /\ outcome.success <=> (NotifierConfigured /\ last.delivery = "200")
              /\ ~NotifierConfigured =>
                    /\ ~outcome.success
                    /\ outcome.message = "unconfigured"
                    /\ last.posted = 0
              /\ (NotifierConfigured /\ last.delivery = "500") =>
                    /\ ~outcome.success
                    /\ outcome.message = "delivery failed"
                    /\ last.posted = 1
        /\ outcome.success => last.score >= threshold

C16_Witness ==
    /\ last.op = "notify"
    /\ last.score >= threshold
    /\ NotifierConfigured
    /\ last.delivery = "200"
    /\ outcome.success

(* C17: a CSV batch without the content column is rejected as a whole
   before any row is scored: processing the file makes no calculate_score
   call and no notify_if_significant call and appends no record to the
   ledger. *)
C17_MalformedBatchRejected ==
    [][ (last'.op = "process_csv" /\ ~last'.accepted) =>
          /\ last'.scored = 0
          /\ decisions' = decisions
          /\ sendCalls' = sendCalls
          /\ ledger' = ledger ]_vars

(* C18: when generate_dictionary reports failure by returning the empty
   mapping (empty corpus, no surviving term, or an error while generating
   or saving), the generated-dictionary file has the content it had before
   the call and the store's mapping, provenance and source path are
   unchanged. *)
C18_FailureLeavesDictionary ==
    [][ (last'.op = "generate" /\ DOMAIN last'.returned = {}) =>
          /\ autoFile' = autoFile
          /\ keywords' = keywords
          /\ source_type' = source_type
          /\ source_path' = source_path ]_vars

(* the high-impact bodies: akaji twice, genson once, shorter than 500 *)
HighImpactBodies == {HighImpactSpaced, HighImpactRunning}

(* C19: with the seven-term dictionary (scores 5 to 9) loaded, a body
   shorter than 500 characters in which one score-8 term occurs twice and
   another score-8 term once scores at least 70, has both terms in
   used_keywords, and reports the store's source type. *)
C19_HighImpact ==
    (Scored /\ keywords = TestDict /\ result.document \in HighImpactBodies) =>
        /\ result.score >= 70
        /\ {Akaji, Genson} \subseteq DOMAIN result.used_keywords
        /\ result.dictionary_type = source_type

(* C20: backup_current_dictionary copies the loaded source file into the
   backup directory under <stem>_<timestamp><suffix> and returns that path;
   when no source is loaded or the loaded path no longer exists it creates
   no file and returns nothing.  The dictionary files and the store are
   left as they were. *)
C20_BackupCurrentDictionary ==
    [][ last'.op = "backup" =>
          LET loadedFile == IF source_path = UserPath THEN userFile ELSE autoFile
              present == source_path # NoneValue /\ loadedFile.kind # "absent"
              name == last'.returned[1]
          IN  /\ present =>
                    /\ Len(last'.returned) = 1
                    /\ name.stem = (IF source_path = UserPath
                                    THEN "keywords" ELSE "auto_keywords")
                    /\ name.timestamp = now
                    /\ name.suffix = (IF source_path = UserPath
                                      THEN customSuffix ELSE ".json")
                    /\ DOMAIN backups' = DOMAIN backups \cup {name}
                    /\ backups'[name] = loadedFile
                    /\ \A other \in DOMAIN backups \ {name} :
                          backups'[other] = backups[other]
              /\ ~present =>
                    /\ last'.returned = <<>>
                    /\ backups' = backups
              /\ userFile' = userFile
              /\ autoFile' = autoFile
              /\ keywords' = keywords
              /\ source_type' = source_type
              /\ source_path' = source_path ]_vars

C20_Witness ==
    /\ last.op = "backup"
    /\ last.returned # <<>>
    /\ source_path = UserPath
    /\ last.returned[1] \in DOMAIN backups
    /\ backups[last.returned[1]] = userFile
    /\ last.returned[1].stem = "keywords"

(* a backup asked for after the loaded file was deleted *)
C20_WitnessDeleted ==
    /\ last.op = "backup"
    /\ last.returned = <<>>
    /\ source_path = UserPath
    /\ userFile = Absent

(* C21: while load() runs, a reader finds in the store either the complete
   mapping, provenance tag and path from before the call or the complete
   ones the call ends with, never an empty or partly filled mapping and
   never a mapping with the other dictionary's tag. *)
C21_AtomicReload ==
    loader.todo # <<>> => CurrentStore \in {loader.before, loader.after}

(* the assignments of a stepwise load() end in the store load() returns with *)
LoadStepsAgree ==
    (last.op = "load_step" /\ last.returns) => CurrentStore = last.expected

(* C22: a delivery still pending does not hold up the documents after it:
   while the file task waits for the answer to the post for one document,
   the next document of the batch can be scored and decided. *)
C22_SlowDeliveryDoesNotBlock ==
    (awaiting["file"] # NoResult /\ batch # <<>>) => ENABLED FileScore

(* the fields of a data row of the ledger *)
RowFields ==
    {"header", "datetime", "score", "notified", "dictionary_type", "keywords_used",
     "notification_message"}

(* the decisions that have run to their end *)
Completed == decisions - Cardinality({t \in Tasks : awaiting[t] # NoResult})

(* C23: under every interleaving of concurrent notify_if_significant calls
   each per-day ledger file has exactly one header row, which is its first
   row, every other row is one whole data row, and the files together hold
   one data row per completed decision. *)
C23_LedgerSerialized ==
    /\ \A day \in DOMAIN ledger :
          /\ Len(ledger[day]) >= 1
          /\ ledger[day][1].header
          /\ \A i \in 2..Len(ledger[day]) :
                /\ ~ledger[day][i].header
                /\ DOMAIN ledger[day][i] = RowFields
    /\ CountDataRows(ledger, DOMAIN ledger) = Completed

C23_Witness ==
    /\ last.op = "delivery_returns"
    /\ \E t \in Tasks : awaiting[t] # NoResult
    /\ \E day \in DOMAIN ledger : Len(ledger[day]) >= 2

(* C24: the score is min(100, max(0, sum of the values of used_keywords));
   the values themselves are the rounded contributions as computed, not
   clamped, so one of them may exceed the score that is returned. *)
C24_ClampOnTotalOnly ==
    Scored =>
        /\ result.score = Min(MaxScore, Max(MinScore, ContributionSum(result)))
        /\ \A w \in DOMAIN result.used_keywords :
              FindAllCount(w, result.document.text) >= 1 =>
                  Nearest(result.used_keywords[w],
                          Contribution(keywords[w],
                                       FindAllCount(w, result.document.text),
                                       Len(result.document.text) + result.document.pad))

C24_Witness ==
    /\ Scored
    /\ \E w \in DOMAIN result.used_keywords : result.used_keywords[w] > result.score

(* C25: generate_keywords maps the weight w of a kept term to
   clamp(round(w * 20), 1, 10), rounding to the nearest integer, before the
   overrides are applied; every entry of the generated dictionary is an
   integer in [1,10]. *)
C25_WeightRounded ==
    last.op = "generate" =>
        /\ \A w \in DOMAIN last.generated : last.generated[w] \in GeneratedMin..GeneratedMax
        /\ \A i \in 1..Len(last.corpus.ranked) :
              LET word == last.corpus.ranked[i].word
                  rounded == RoundHalfEven(last.corpus.ranked[i].milli * WeightScale, 1000)
              IN  word \in DOMAIN last.generated =>
                    last.generated[word] =
                        IF FloorOf(word) >= GeneratedMax THEN FloorOf(word)
                        ELSE IF rounded >= GeneratedMax THEN GeneratedMax
                        ELSE IF rounded <= GeneratedMin
                             THEN (IF FloorOf(word) > GeneratedMin THEN FloorOf(word)
                                   ELSE GeneratedMin)
                        ELSE IF FloorOf(word) > rounded THEN FloorOf(word) ELSE rounded

(* C26: after every successful load() each entry of the store has a
   non-empty, trimmed term and an integer score in [0,10]; rows with a
   blank term are skipped, and a term is held once. *)
C26_EntriesWellFormed ==
    (Loaded /\ last.ok) =>
        \A w \in DOMAIN keywords :
            /\ w # <<>>
            /\ Strip(w) = w
            /\ keywords[w] \in 0..GeneratedMax

(* the store holds what its tag and path say: the entries parsed from the
   file at the path, or nothing when there is no tag *)
TagMatchesMapping(store, uf, af, suffix) ==
    /\ store.source_type = "user" =>
          /\ store.source_path = UserPath
          /\ UserParses(uf, suffix)
          /\ store.keywords = CuratedEntries(uf)
    /\ store.source_type = "auto" =>
          /\ store.source_path = AutoPath
          /\ AutoParses(af)
          /\ store.keywords = GeneratedEntries(af)
    /\ store.source_type = NoneValue =>
          /\ store.source_path = NoneValue
          /\ DOMAIN store.keywords = {}

(* C27: after every load(), succeeding or failing, with files absent,
   present or malformed, the provenance tag and the source path of the store
   name the file its mapping was parsed from: a load() either leaves the
   store as it was or leaves the entries of the file the tag names; and the
   dictionary_type of every scoring result is the tag of the store. *)
C27_ProvenanceConsistent ==
    [][ /\ (last'.op = "load" \/ (last'.op = "score" /\ last'.loaded # "no")) =>
              \/ <<keywords', source_type', source_path'>> = storeVars
              \/ TagMatchesMapping(Store(keywords', source_type', source_path'),
                                   userFile, autoFile, customSuffix)
        /\ (last'.op = "score" /\ last'.loaded # "failed") =>
              result'.dictionary_type =
                  (IF source_type' = NoneValue THEN "none" ELSE source_type') ]_vars

(* C28: a load() that returns failure leaves the store as it was before the
   call: the same mapping, the same provenance tag, the same source path. *)
C28_FailedLoadKeepsStore ==
    (Loaded /\ ~last.ok) => CurrentStore = last.before

(* C29: the timestamp of a NotificationResult is the time its decision was
   made: it does not precede the start of the call that produced it, and a
   call made at a later time than the decision before it yields a strictly
   later timestamp. *)
C29_TimestampOfDecision ==
    [][ last'.op = "notify" =>
          /\ outcome'.timestamp >= now
          /\ (outcome # NoOutcome /\ now > outcome.timestamp) =>
                outcome'.timestamp > outcome.timestamp ]_vars

(* C30: at most one observer runs at any time; start_watching while watching
   returns False and leaves the watched directory and the observer as they
   were; stop_watching while not watching returns False; is_active() is
   true exactly from a successful start to the next successful stop; and
   get_watch_dir() is not None exactly when is_active(). *)
C30_WatcherStateMachine ==
    /\ Cardinality(running) <= 1
    /\ (last.op = "start_watching" /\ last.was.is_watching) =>
          /\ ~last.returned
          /\ WatcherState = last.was
    /\ (last.op = "stop_watching" /\ ~last.was.is_watching) =>
          /\ ~last.returned
          /\ WatcherState = last.was
    /\ last.op = "init" => ~IsActive
    /\ last.op = "start_watching" => (IsActive <=> (last.was.is_watching \/ last.returned))
    /\ last.op = "stop_watching" => (IsActive <=> (last.was.is_watching /\ ~last.returned))
    /\ (GetWatchDir # NoneValue) <=> IsActive
    /\ (last.op = "start_watching" /\ last.returned) =>
          /\ GetWatchDir = last.directory
          /\ running = {observer}

C30_Witness ==
    /\ last.op = "start_watching"
    /\ last.was.is_watching
    /\ ~last.returned
    /\ running = {observer}
    /\ GetWatchDir # last.directory
    /\ PathKind[last.directory] = "dir"

====
